---- MODULE Spec2Model ----
(***************************************************************************)
(* A model of phytreeviz.TreeViz (src/src/phytreeviz/treeviz.py): the      *)
(* construction of the tree (synthetic internal names, the duplicate-name  *)
(* check, the ultrametric normalization), the layout, the registry of plot *)
(* functions and the render pass.                                          *)
(*                                                                         *)
(* Trees: nodes are numbered 1..n in depth-first preorder (the order of    *)
(* Bio.Phylo's find_clades), node 1 is the root, parent[1] = 0.            *)
(* Optional values (a name, a branch length, a confidence) are <<>> for    *)
(* Python's None and <<v>> for a value.  Numbers are exact rationals       *)
(* <<num, den>>; float rounding is not modelled.                           *)
(***************************************************************************)
EXTENDS Integers, Sequences, FiniteSets, TLC

VARIABLES
    input,              \* the arguments of TreeViz(...): tree_data and options
    status,             \* "new" | "ready" | "failed" (the constructor raised)
    err,                \* what the constructor raised
    tree,               \* self._tree
    auto_innode_labels, \* self._auto_innode_labels
    node2label_props,   \* self._node2label_props
    node2line_props,    \* self._node2line_props
    plot_funcs,         \* self._plot_funcs (each closure with what it captured)
    ax,                 \* self._ax: 0 for None, else the axes' number
    axes,               \* axes[a]: the texts on axes a (ax.texts), in order
    tree_line_kws,      \* self._tree_line_kws
    tree_align_line_kws, \* self._tree_align_line_kws
    cache,              \* the cached properties: None until first read
    log,                \* the draw operations of the last render pass
    prevLog,            \* those of the pass before it
    renders,            \* render passes since the last call that returned
    passes,             \* render passes made so far
    calls,              \* registration and styling calls made so far
    last                \* the last public call, its arguments, what it raised

vars == <<input, status, err, tree, auto_innode_labels, node2label_props,
          node2line_props, plot_funcs, ax, axes, tree_line_kws,
          tree_align_line_kws, cache, log, prevLog, renders, passes, calls,
          last>>

(***************************************************************************)
(* Bounds                                                                  *)
(***************************************************************************)
MaxNodes == 6
MaxNameNodes == 4
MaxLenNodes == 4
MaxRenamed == 2
MaxCalls == 2
MaxRenders == 2
MaxQueryNodes == 5
MaxQueryLen == 3

None == <<>>
Some(v) == <<v>>

(***************************************************************************)
(* Exact rationals                                                         *)
(***************************************************************************)
Abs(i) == IF i < 0 THEN -i ELSE i

RECURSIVE GCD(_, _)
GCD(a, b) == IF b = 0 THEN a ELSE GCD(b, a % b)

Rat(n, d) ==
    LET g == GCD(Abs(n), Abs(d))
        s == IF d < 0 THEN -1 ELSE 1
    IN  <<(s * n) \div g, (s * d) \div g>>

RI(i) == <<i, 1>>
\* a Python int, as the code assigns it (branch_length = 1): it computes like
\* the rational and str() prints it without decimals
PyInt(i) == <<i, 1, "int">>
IsPyInt(v) == Len(v) = 3
RAdd(a, b) == Rat(a[1] * b[2] + b[1] * a[2], a[2] * b[2])
RSub(a, b) == Rat(a[1] * b[2] - b[1] * a[2], a[2] * b[2])
RDivInt(a, k) == Rat(a[1], a[2] * k)
RLe(a, b) == a[1] * b[2] <= b[1] * a[2]
RLt(a, b) == a[1] * b[2] < b[1] * a[2]
RMax2(a, b) == IF RLe(a, b) THEN b ELSE a
RMin2(a, b) == IF RLe(a, b) THEN a ELSE b

RECURSIVE RSum(_)
RSum(s) == IF s = <<>> THEN RI(0) ELSE RAdd(Head(s), RSum(Tail(s)))

RECURSIVE RMax(_)
RMax(s) == IF Len(s) = 1 THEN s[1] ELSE RMax2(Head(s), RMax(Tail(s)))

RECURSIVE RMin(_)
RMin(s) == IF Len(s) = 1 THEN s[1] ELSE RMin2(Head(s), RMin(Tail(s)))

(***************************************************************************)
(* Bio.Phylo's tree queries, as TreeViz uses them                          *)
(***************************************************************************)
N(t) == Len(t.parent)
Nodes(t) == 1..N(t)
Root == 1
IsTerminal(t, i) == \A j \in Nodes(t) : t.parent[j] # i

\* find_clades(): every node, depth-first preorder
FindClades(t) == [i \in 1..N(t) |-> i]

RECURSIVE SelectNodes(_, _, _)
SelectNodes(t, s, wantTerminal) ==
    IF s = <<>> THEN <<>>
    ELSE IF IsTerminal(t, Head(s)) = wantTerminal
         THEN <<Head(s)>> \o SelectNodes(t, Tail(s), wantTerminal)
         ELSE SelectNodes(t, Tail(s), wantTerminal)

GetTerminals(t) == SelectNodes(t, FindClades(t), TRUE)
GetNonterminals(t) == SelectNodes(t, FindClades(t), FALSE)
CountTerminals(t) == Len(GetTerminals(t))

RECURSIVE ChildrenFrom(_, _, _)
ChildrenFrom(t, i, j) ==
    IF j > N(t) THEN <<>>
    ELSE IF t.parent[j] = i THEN <<j>> \o ChildrenFrom(t, i, j + 1)
         ELSE ChildrenFrom(t, i, j + 1)

\* node.clades: the children of i, in order
Clades(t, i) == ChildrenFrom(t, i, i + 1)

\* get_path(target): the nodes from below the root down to the target
RECURSIVE GetPath(_, _)
GetPath(t, i) == IF i = Root THEN <<>> ELSE GetPath(t, t.parent[i]) \o <<i>>

\* str(node.name)
Str(name) == IF name = None THEN "None" ELSE name[1]

\* find_clades(name): the first node, in preorder, whose name is the string
FindByName(t, s) ==
    LET hits == {i \in Nodes(t) : t.name[i] = Some(s)}
    IN  IF hits = {} THEN 0 ELSE CHOOSE i \in hits : \A j \in hits : i <= j

BLOrZero(t, i) ==
    IF t.bl[i] = None THEN RI(0) ELSE <<t.bl[i][1][1], t.bl[i][1][2]>>

\* depths(unit_branch_lengths): the root starts at (root.branch_length or 0)
RECURSIVE DepthOf(_, _, _)
DepthOf(t, unit, i) ==
    IF i = Root THEN BLOrZero(t, Root)
    ELSE RAdd(DepthOf(t, unit, t.parent[i]),
              IF unit THEN RI(1) ELSE BLOrZero(t, i))

Depths(t, unit) == [i \in Nodes(t) |-> DepthOf(t, unit, i)]

MaxDepth(t) == RMax(Depths(t, FALSE))

(***************************************************************************)
(* Construction: TreeViz.__init__                                          *)
(***************************************************************************)
\* f"N_{idx}"
NName(k) == "N_" \o ToString(k)

\* the nodes with k edges between them and the root, in preorder
RECURSIVE LevelFrom(_, _, _)
LevelFrom(t, k, i) ==
    IF i > N(t) THEN <<>>
    ELSE (IF Len(GetPath(t, i)) = k THEN <<i>> ELSE <<>>) \o LevelFrom(t, k, i + 1)

RECURSIVE LevelsFrom(_, _)
LevelsFrom(t, k) ==
    IF k >= N(t) THEN <<>> ELSE LevelFrom(t, k, 1) \o LevelsFrom(t, k + 1)

\* every node level by level: the root, then each level left to right
LevelOrder(t) == LevelsFrom(t, 0)

\* the internal nodes enumerated level by level
InnodeOrderByLevel(t) == SelectNodes(t, LevelOrder(t), FALSE)

\* the nodes _set_uniq_innode_name enumerates from 1: tree.get_nonterminals()
InnodeOrder(t) == GetNonterminals(t)

\* 0 when node i is not in the sequence
IndexIn(s, i) ==
    IF \E k \in 1..Len(s) : s[k] = i THEN CHOOSE k \in 1..Len(s) : s[k] = i ELSE 0

RECURSIVE AssignedNames(_, _, _)
AssignedNames(t, order, idx) ==
    IF idx > Len(order) THEN <<>>
    ELSE (IF t.name[order[idx]] = None THEN <<NName(idx)>> ELSE <<>>)
         \o AssignedNames(t, order, idx + 1)

\* _set_uniq_innode_name: (tree, uniq_innode_names)
SetUniqInnodeName(t) ==
    LET order == InnodeOrder(t)
        named == [i \in Nodes(t) |->
                    IF IndexIn(order, i) # 0 /\ t.name[i] = None
                    THEN Some(NName(IndexIn(order, i)))
                    ELSE t.name[i]]
    IN  [tree |-> [t EXCEPT !.name = named],
         uniq_innode_names |-> AssignedNames(t, order, 1)]

\* the names _check_node_name_dup counts: str(n.name) of every node
AllNodeNames(t) == [i \in Nodes(t) |-> Str(t.name[i])]

NameCount(t, s) == Cardinality({i \in Nodes(t) : AllNodeNames(t)[i] = s})

\* a check that counts the leaf names only
CheckLeafNameDup(t) ==
    LET leaves == {i \in Nodes(t) : IsTerminal(t, i)}
        count(s) == Cardinality({i \in leaves : AllNodeNames(t)[i] = s})
    IN  {<<AllNodeNames(t)[i], count(AllNodeNames(t)[i])>> :
            i \in {j \in leaves : count(AllNodeNames(t)[j]) > 1}}

\* _check_node_name_dup: the (name, count) pairs the error message lists;
\* the check raises iff there is one
CheckNodeNameDup(t) ==
    {<<AllNodeNames(t)[i], NameCount(t, AllNodeNames(t)[i])>> :
        i \in {j \in Nodes(t) : NameCount(t, AllNodeNames(t)[j]) > 1}}

\* insert node i into a sequence sorted by depth, descending, after its equals
RECURSIVE InsertByDepth(_, _, _)
InsertByDepth(d, s, i) ==
    IF s = <<>> THEN <<i>>
    ELSE IF RLt(d[Head(s)], d[i]) THEN <<i>> \o s
         ELSE <<Head(s)>> \o InsertByDepth(d, Tail(s), i)

RECURSIVE SortFrom(_, _, _)
SortFrom(d, s, i) ==
    IF i > Len(d) THEN s ELSE SortFrom(d, InsertByDepth(d, s, i), i + 1)

\* the keys of name2depth left in insertion order, the sort forgotten
UnsortedByDepth(t) == FindClades(t)

\* the keys of name2depth after sorted(..., reverse=True): a stable sort
SortedByDepth(t) == SortFrom(Depths(t, TRUE), <<>>, 1)

\* no branch length of the path taken as set
FixedNone(bl, path) == <<>>

\* the branch lengths on a path that are not None
RECURSIVE FixedOn(_, _)
FixedOn(bl, path) ==
    IF path = <<>> THEN <<>>
    ELSE (IF bl[Head(path)] # None THEN <<bl[Head(path)][1]>> ELSE <<>>)
         \o FixedOn(bl, Tail(path))

\* the assignments path_node.branch_length = value a leaf makes, in path order
Assignments(path, leaf, value) ==
    [k \in 1..Len(path) |-> [node |-> path[k], leaf |-> leaf, value |-> value]]

\* one iteration of the loop of _to_ultrametric_tree, for the node called
\* name: the branch lengths after it, the assignments made so far, and what
\* it raised
UltrametricStep(t, st, name, depth, max_tree_depth) ==
    LET node == FindByName(t, name)
        path == GetPath(t, node)
        fixed == FixedOn(st.bl, path)
        inPath(i) == \E k \in 1..Len(path) : path[k] = i
    IN  IF st.err # "" THEN st
        ELSE IF node = 0 THEN [st EXCEPT !.err = "StopIteration"]
        ELSE IF ~IsTerminal(t, node) THEN st
        ELSE IF depth = max_tree_depth
        THEN [st EXCEPT !.bl = [i \in Nodes(t) |->
                                  IF inPath(i) THEN Some(PyInt(1)) ELSE st.bl[i]],
                        !.assigned = @ \o Assignments(path, node, PyInt(1))]
        ELSE IF Len(path) - Len(fixed) = 0
        THEN [st EXCEPT !.err = "ZeroDivisionError"]
        ELSE LET other_bl == RDivInt(RSub(max_tree_depth, RSum(fixed)),
                                      Len(path) - Len(fixed))
                 unset(i) == st.bl[i] = None
             IN  [st EXCEPT !.bl = [i \in Nodes(t) |->
                                      IF inPath(i) /\ st.bl[i] = None
                                      THEN Some(other_bl) ELSE st.bl[i]],
                            !.assigned = @ \o Assignments(SelectSeq(path, unset),
                                                          node, other_bl)]

RECURSIVE UltrametricLoop(_, _, _, _, _)
UltrametricLoop(t, st, order, d, max_tree_depth) ==
    IF order = <<>> THEN st
    ELSE UltrametricLoop(t,
            UltrametricStep(t, st, Str(t.name[Head(order)]), d[Head(order)],
                            max_tree_depth),
            Tail(order), d, max_tree_depth)

\* a normalization that keeps the branch lengths it finds instead of
\* resetting them
ToUltrametricTreeUnreset(t) ==
    LET d == Depths(t, TRUE)
        st == UltrametricLoop(t, [bl |-> t.bl, err |-> "", assigned |-> <<>>],
                              SortedByDepth(t), d, RMax(d))
    IN  [tree |-> [t EXCEPT !.bl = st.bl], err |-> st.err,
         assigned |-> st.assigned]

\* _to_ultrametric_tree: [tree, err]
ToUltrametricTree(t) ==
    LET d == Depths(t, TRUE)
        max_tree_depth == RMax(d)
        reset == [i \in Nodes(t) |-> IF i = Root THEN Some(PyInt(0)) ELSE None]
        st == UltrametricLoop(t, [bl |-> reset, err |-> "", assigned |-> <<>>],
                              SortedByDepth(t), d, max_tree_depth)
    IN  [tree |-> [t EXCEPT !.bl = st.bl], err |-> st.err,
         assigned |-> st.assigned]

NoTree == [parent |-> <<>>, name |-> <<>>, bl |-> <<>>, conf |-> <<>>]
NoErr == [kind |-> "", dups |-> {}]

\* Tree objects: a heap is the sequence of the trees that exist, an object is
\* its position in it.  Object 1 is the tree the caller passed.
CallerObject == 1

\* no copy: the object itself
SameObject(heap, o) == [heap |-> heap, obj |-> o]

\* deepcopy(tree): a new object with the contents of object o
Deepcopy(heap, o) == [heap |-> Append(heap, heap[o]), obj |-> Len(heap) + 1]

\* the heap with object o holding the tree t
Store(heap, o, t) == [heap EXCEPT ![o] = t]

\* __init__, lines 73-81: what self._tree and self._auto_innode_labels become,
\* or what was raised; what the caller's tree holds afterwards, and whether
\* self._tree is the caller's object
Build(inp) ==
    LET c1 == Deepcopy(<<inp.tree>>, CallerObject)
        u == SetUniqInnodeName(c1.heap[c1.obj])
        h1 == Store(c1.heap, c1.obj, u.tree)
        dups == CheckNodeNameDup(u.tree)
        normalize == inp.ignore_branch_length \/ MaxDepth(u.tree) = RI(0)
        c2 == Deepcopy(h1, c1.obj)
        um == ToUltrametricTree(c2.heap[c2.obj])
        h2 == Store(c2.heap, c2.obj, um.tree)
    IN  IF dups # {}
        THEN [ok |-> FALSE, err |-> [kind |-> "ValueError", dups |-> dups],
              tree |-> NoTree, auto |-> <<>>, normalized |-> FALSE,
              caller |-> h1[CallerObject], shared |-> FALSE]
        ELSE IF normalize /\ um.err # ""
        THEN [ok |-> FALSE, err |-> [kind |-> um.err, dups |-> {}],
              tree |-> NoTree, auto |-> <<>>, normalized |-> TRUE,
              caller |-> h2[CallerObject], shared |-> FALSE]
        ELSE [ok |-> TRUE, err |-> NoErr,
              tree |-> IF normalize THEN h2[c2.obj] ELSE h1[c1.obj],
              auto |-> u.uniq_innode_names, normalized |-> normalize,
              caller |-> IF normalize THEN h2[CallerObject] ELSE h1[CallerObject],
              shared |-> (IF normalize THEN c2.obj ELSE c1.obj) = CallerObject]

(***************************************************************************)
(* The trees and options the constructor is given                          *)
(***************************************************************************)
\* the nodes on the path from the root to i, both included
RECURSIVE AncSelf(_, _)
AncSelf(p, i) == IF i = 0 THEN {} ELSE {i} \cup AncSelf(p, p[i])

\* every ordered rooted tree of n nodes, its nodes numbered in preorder
RECURSIVE Shapes(_)
Shapes(n) ==
    IF n = 1 THEN {<<0>>}
    ELSE {Append(p, q) : <<p, q>> \in
            {<<p, q>> \in Shapes(n - 1) \X (1..(n - 1)) : q \in AncSelf(p, n - 1)}}

LeafLetters == <<"A", "B", "C", "D", "E", "F", "G", "H">>

ShapeOnly(p) ==
    [parent |-> p, name |-> [i \in 1..Len(p) |-> None],
     bl |-> [i \in 1..Len(p) |-> None], conf |-> [i \in 1..Len(p) |-> None]]

\* leaves named A, B, ... in order, internal nodes unnamed
DefaultNames(p) ==
    [i \in 1..Len(p) |->
        IF IsTerminal(ShapeOnly(p), i)
        THEN Some(LeafLetters[IndexIn(GetTerminals(ShapeOnly(p)), i)])
        ELSE None]

PlainTree(p) == [ShapeOnly(p) EXCEPT !.name = DefaultNames(p)]

\* ((A,B),((C,D),(E,(F,G)))); of tests/scripts/test_cli.py
CliTestTree == PlainTree(<<0, 1, 2, 2, 1, 5, 6, 6, 5, 9, 9, 11, 11>>)

DefaultOptions ==
    [ignore_branch_length |-> FALSE, align_leaf_label |-> FALSE,
     reverse |-> FALSE, leaf_label_size |-> 12, innode_label_size |-> 0,
     show_auto_innode_label |-> TRUE]

Input(t, opts) == [tree |-> t] @@ opts

\* trees without branch lengths and with the default names
ShapeInputs ==
    {Input(PlainTree(p), DefaultOptions) :
        p \in UNION {Shapes(n) : n \in 1..MaxNodes}}

\* names a caller may give a node in place of the default
GivenNames == {None, Some("A"), Some("X"), Some("N_2")}

\* trees without branch lengths, up to MaxRenamed nodes renamed
NameInputs ==
    {Input([PlainTree(p) EXCEPT !.name =
                [i \in 1..Len(p) |-> IF i \in DOMAIN f THEN f[i]
                                     ELSE DefaultNames(p)[i]]],
           DefaultOptions) :
        <<p, f>> \in UNION {
            UNION { {<<p, f>> : f \in [D -> GivenNames]} :
                    D \in {D \in SUBSET (1..Len(p)) : Cardinality(D) <= MaxRenamed} } :
            p \in UNION {Shapes(n) : n \in 1..MaxNameNodes} } }

BranchLengths == {None, Some(RI(1)), Some(RI(2))}

\* trees with default names and any branch lengths, normalization asked or not
LengthInputs ==
    {Input([PlainTree(p) EXCEPT !.bl = b],
           [DefaultOptions EXCEPT !.ignore_branch_length = ig]) :
        <<p, b, ig>> \in UNION {
            {<<p, b, ig>> : b \in [1..Len(p) -> BranchLengths], ig \in BOOLEAN} :
            p \in UNION {Shapes(n) : n \in 1..MaxLenNodes} } }

BuildInputs ==
    ShapeInputs \cup NameInputs \cup LengthInputs
        \cup {Input(CliTestTree, DefaultOptions)}

EmptyDict == [k \in {} |-> {}]
NoCall == [op |-> "", args |-> <<>>, raised |-> ""]
NoCache ==
    [max_tree_depth |-> None, name2xy_right |-> None, name2xy_center |-> None,
     name2xy_left |-> None, name2rect |-> None]

InitWith(inputs) ==
    /\ input \in inputs
    /\ status = "new"
    /\ err = NoErr
    /\ tree = NoTree
    /\ auto_innode_labels = <<>>
    /\ node2label_props = EmptyDict
    /\ node2line_props = EmptyDict
    /\ plot_funcs = <<>>
    /\ ax = 0
    /\ axes = <<>>
    /\ tree_line_kws = [color |-> "black", lw |-> 1, clip_on |-> FALSE]
    /\ tree_align_line_kws =
            [lw |-> <<1, 2>>, ls |-> "dashed", alpha |-> <<1, 2>>, clip_on |-> FALSE]
    /\ cache = NoCache
    /\ log = <<>>
    /\ prevLog = <<>>
    /\ renders = 0
    /\ passes = 0
    /\ calls = 0
    /\ last = NoCall

\* the constructor, given the arguments inp.  input holds the arguments with
\* the caller's tree as it is after the call; last tells whether self._tree
\* is that same object.
ConstructWith(inp) ==
    /\ LET b == Build(inp)
       IN  /\ input' = [inp EXCEPT !.tree = b.caller]
           /\ status' = IF b.ok THEN "ready" ELSE "failed"
           /\ err' = b.err
           /\ tree' = b.tree
           /\ auto_innode_labels' = b.auto
           /\ last' = [op |-> "__init__", args |-> <<>>, raised |-> b.err.kind,
                       shared |-> b.shared]
    /\ UNCHANGED <<node2label_props, node2line_props, plot_funcs, ax,
                   axes, tree_line_kws, tree_align_line_kws, cache, log,
                   prevLog, renders, passes, calls>>

\* tv = TreeViz(tree_data, ...)
Construct ==
    /\ status = "new"
    /\ ConstructWith(input)

\* tv = TreeViz(tv.tree, ignore_branch_length=ig): an engine built from the
\* tree of the engine before it
Reconstruct(ig) ==
    /\ status = "ready"
    /\ ConstructWith([input EXCEPT !.tree = tree, !.ignore_branch_length = ig])

InitBuild == InitWith(BuildInputs)
NextBuild == Construct
SpecBuild == InitBuild /\ [][NextBuild]_vars

\* engines built one from the tree of another
InitRebuild == InitWith(LengthInputs)
NextRebuild == Construct \/ \E ig \in BOOLEAN : Reconstruct(ig)
SpecRebuild == InitRebuild /\ [][NextRebuild]_vars

(***************************************************************************)
(* Layout: _calc_name2xy_pos, _calc_name2rect                              *)
(* The maps are keyed by str(node.name); they are defined for trees whose  *)
(* nodes all carry a name, which is what the constructor leaves when every *)
(* leaf is named.                                                          *)
(***************************************************************************)
RECURSIVE Reverse(_)
Reverse(s) == IF s = <<>> THEN <<>> ELSE Reverse(Tail(s)) \o <<Head(s)>>

NameSet(t) == {Str(t.name[i]) : i \in Nodes(t)}

\* a distance that starts from the length the root itself carries
DistanceFromAbove(t, i) == DepthOf(t, FALSE, i)

\* tree.distance(name): the branch lengths below the root, None skipped
Distance(t, i) == RSum(FixedOn(t.bl, GetPath(t, i)))

\* the leaves in their natural order, whatever the flag
LeafNodesNatural(t, reverse) == GetTerminals(t)

\* the leaves in the order they are ranked from y = 1
LeafNodes(t, reverse) ==
    IF reverse THEN Reverse(Reverse(GetTerminals(t))) ELSE Reverse(GetTerminals(t))

RECURSIVE NodeY(_, _, _)
NodeY(t, reverse, i) ==
    IF IsTerminal(t, i) THEN RI(IndexIn(LeafNodes(t, reverse), i))
    ELSE LET c == Clades(t, i)
         IN  RDivInt(RSum([k \in 1..Len(c) |-> NodeY(t, reverse, c[k])]), Len(c))

XYRight(t, reverse, i) == <<Distance(t, i), NodeY(t, reverse, i)>>

\* the right coordinates, whatever the position asked for
CalcName2xyRight(t, reverse, pos) ==
    [s \in NameSet(t) |-> XYRight(t, reverse, FindByName(t, s))]

\* _calc_name2xy_pos(pos)
CalcName2xyPos(t, reverse, pos) ==
    [s \in NameSet(t) |->
        LET i == FindByName(t, s)
            r == XYRight(t, reverse, i)
            parent_xy == XYRight(t, reverse, t.parent[i])
        IN  IF pos = "right" \/ i = Root THEN r
            ELSE IF pos = "center"
                 THEN <<RDivInt(RAdd(r[1], parent_xy[1]), 2), r[2]>>
                 ELSE <<parent_xy[1], r[2]>>]

\* the node without its descendants
NodeAlone(t, i) == <<i>>

\* node.find_clades(): the node and its descendants, in preorder
RECURSIVE Subtree(_, _)
Subtree(t, i) ==
    LET c == Clades(t, i)
        F[k \in 0..Len(c)] == IF k = 0 THEN <<>> ELSE F[k - 1] \o Subtree(t, c[k])
    IN  <<i>> \o F[Len(c)]

SubtreeLeaves(t, i) == SelectNodes(t, Subtree(t, i), TRUE)

Rect(x, y, w, h) == [x |-> x, y |-> y, width |-> w, height |-> h]

\* _calc_name2rect
CalcName2rect(t, name2xy, align_leaf_label, max_tree_depth) ==
    [s \in DOMAIN name2xy |->
        LET i == FindByName(t, s)
            xy == name2xy[s]
            parent_node == IF i = Root THEN i ELSE t.parent[i]
            parent_xy == name2xy[Str(t.name[parent_node])]
            sub == Subtree(t, i)
            x_list == [k \in 1..Len(sub) |-> name2xy[Str(t.name[sub[k]])][1]]
            y_list == [k \in 1..Len(sub) |-> name2xy[Str(t.name[sub[k]])][2]]
            min_x == RDivInt(RAdd(xy[1], parent_xy[1]), 2)
            max_x == IF align_leaf_label THEN max_tree_depth ELSE RMax(x_list)
            min_y == RSub(RMin(y_list), <<1, 2>>)
            max_y == RAdd(RMax(y_list), <<1, 2>>)
        IN  Rect(min_x, min_y, RSub(max_x, min_x), RSub(max_y, min_y))]

\* the value a cached property computes at its first read
Compute(key) ==
    CASE key = "max_tree_depth" -> MaxDepth(tree)
      [] key = "name2xy_right" -> CalcName2xyPos(tree, input.reverse, "right")
      [] key = "name2xy_center" -> CalcName2xyPos(tree, input.reverse, "center")
      [] key = "name2xy_left" -> CalcName2xyPos(tree, input.reverse, "left")
      [] key = "name2rect" ->
            CalcName2rect(tree, CalcName2xyPos(tree, input.reverse, "right"),
                          input.align_leaf_label, MaxDepth(tree))

\* what reading the properties in keys computes on the way
Needs(keys) ==
    keys \cup (IF keys \cap {"name2xy_center", "name2xy_left", "name2rect"} # {}
               THEN {"name2xy_right"} ELSE {})
         \cup (IF "name2rect" \in keys /\ input.align_leaf_label
               THEN {"max_tree_depth"} ELSE {})

\* the cache after the properties in keys were read
Read(c, keys) ==
    [k \in DOMAIN c |->
        IF k \in Needs(keys) /\ c[k] = None THEN Some(Compute(k)) ELSE c[k]]

\* a property's value, from a cache it is in
Get(c, key) == c[key][1]

AllKeys == DOMAIN NoCache
XYKeys == {"name2xy_left", "name2xy_center", "name2xy_right"}

leaf_labels == [k \in 1..CountTerminals(tree) |-> Str(tree.name[GetTerminals(tree)[k]])]
innode_labels ==
    [k \in 1..Len(GetNonterminals(tree)) |-> Str(tree.name[GetNonterminals(tree)[k]])]
all_node_labels == leaf_labels \o innode_labels

(***************************************************************************)
(* Queries: _check_node_name_exist, _search_target_node_name               *)
(* A query is [list |-> is it a list or tuple, names |-> its names].       *)
(***************************************************************************)
QName(s) == [list |-> FALSE, names |-> <<s>>]
QList(names) == [list |-> TRUE, names |-> names]

InSeq(s, x) == \E k \in 1..Len(s) : s[k] = x

\* a check that stops at the first name it does not find
FirstMissingName(query) ==
    LET missing == SelectSeq(query.names, LAMBDA s : ~InSeq(all_node_labels, s))
    IN  IF missing = <<>> THEN <<>> ELSE <<missing[1]>>

\* _check_node_name_exist: the names the error lists; it raises iff not empty
MissingNames(query) ==
    SelectSeq(query.names, LAMBDA s : ~InSeq(all_node_labels, s))

\* tree.common_ancestor(*names)
RECURSIVE CommonAncestorFrom(_, _, _)
CommonAncestorFrom(paths, level, mrca) ==
    IF \E k \in 1..Len(paths) : Len(paths[k]) < level THEN mrca
    ELSE IF \A k \in 1..Len(paths) : paths[k][level] = paths[1][level]
         THEN CommonAncestorFrom(paths, level + 1, paths[1][level])
         ELSE mrca

\* the common ancestor of the first two targets only
CommonAncestorOfPair(t, names) ==
    CommonAncestorFrom([k \in 1..(IF Len(names) < 2 THEN Len(names) ELSE 2) |->
                            GetPath(t, FindByName(t, names[k]))],
                       1, Root)

CommonAncestor(t, names) ==
    CommonAncestorFrom([k \in 1..Len(names) |-> GetPath(t, FindByName(t, names[k]))],
                       1, Root)

\* _search_target_node_name, for a query whose names exist
SearchTargetNodeName(query) ==
    IF query.list THEN Str(tree.name[CommonAncestor(tree, query.names)])
    ELSE query.names[1]

\* whether _search_target_node_name raises
QueryRaises(query) == MissingNames(query) # <<>>

(***************************************************************************)
(* The registry: the public methods that register a plot function or set   *)
(* a style.  A call that raises leaves last.raised set.                    *)
(***************************************************************************)
BuildVars == <<input, status, err, tree, auto_innode_labels>>
StyleVars == <<node2label_props, node2line_props, tree_line_kws, tree_align_line_kws>>
AxVars == <<ax, axes>>

CanCall == status = "ready" /\ calls < MaxCalls

\* the call raised before it changed anything
Raise(op, args, raised) ==
    /\ last' = [op |-> op, args |-> args, raised |-> raised]
    /\ calls' = calls + 1
    /\ UNCHANGED <<BuildVars, StyleVars, AxVars, plot_funcs, cache, log, prevLog,
                   renders, passes>>

\* the call returned
Return(op, args) ==
    /\ last' = [op |-> op, args |-> args, raised |-> ""]
    /\ calls' = calls + 1
    /\ renders' = 0
    /\ UNCHANGED <<BuildVars, AxVars, log, prevLog, passes>>

XPos == {"left", "center", "right"}
YPos == {"top", "center", "bottom"}
Areas == {"branch", "branch-label", "full"}

\* f"{v:.2f}" of a non-negative number
Fmt2(v) ==
    LET num == 100 * v[1]
        fl == num \div v[2]
        rem == num % v[2]
        q == IF 2 * rem > v[2] THEN fl + 1
             ELSE IF 2 * rem = v[2] THEN fl + (fl % 2) ELSE fl
    IN  ToString(q \div 100) \o "." \o
        (IF q % 100 < 10 THEN "0" ELSE "") \o ToString(q % 100)

\* the label show_branch_length and show_confidence format, no formatter given
FormatLabel(v) == IF IsPyInt(v) /\ v[1] >= 0 THEN ToString(v[1]) ELSE Fmt2(v)

XMarginRatio == <<1, 100>>
YMarginRatio == <<1, 20>>
RMul(a, b) == Rat(a[1] * b[1], a[2] * b[2])

\* the closure text_on_branch appends; c is the cache after its reads
TextOnBranchFunc(c, target_node_name, text, xpos, ypos) ==
    LET xy == Get(c, "name2xy_" \o xpos)[target_node_name]
        xmargin_size == RMul(Get(c, "max_tree_depth"), XMarginRatio)
        x == IF xpos = "left" THEN RAdd(xy[1], xmargin_size)
             ELSE IF xpos = "right" THEN RSub(xy[1], xmargin_size) ELSE xy[1]
        y == IF ypos = "top" THEN RAdd(xy[2], YMarginRatio)
             ELSE IF ypos = "bottom" THEN RSub(xy[2], YMarginRatio) ELSE xy[2]
        va == IF ypos = "top" THEN "bottom" ELSE IF ypos = "bottom" THEN "top" ELSE "center"
    IN  [kind |-> "text", x |-> x, y |-> y, s |-> text, size |-> 8,
         ha |-> xpos, va |-> va, rotation |-> 0]

TextOnBranchReads == XYKeys \cup {"max_tree_depth"}

\* what text_on_branch raises for these arguments, "" when nothing
TextOnBranchRaises(query, xpos, ypos) ==
    IF xpos \notin XPos \/ ypos \notin YPos \/ QueryRaises(query)
    THEN "ValueError" ELSE ""

\* tv.text_on_branch(query, text, xpos=, ypos=)
TextOnBranch(query, text, xpos, ypos) ==
    /\ CanCall
    /\ IF TextOnBranchRaises(query, xpos, ypos) # ""
       THEN Raise("text_on_branch", <<query, text, xpos, ypos>>, "ValueError")
       ELSE /\ cache' = Read(cache, TextOnBranchReads)
            /\ plot_funcs' = Append(plot_funcs,
                  TextOnBranchFunc(cache', SearchTargetNodeName(query), text, xpos, ypos))
            /\ Return("text_on_branch", <<query, text, xpos, ypos>>)
            /\ UNCHANGED StyleVars

\* the closures one show_ call appends: a text for every node of nodes
RECURSIVE ShowFuncs(_, _, _, _, _, _)
ShowFuncs(c, nodes, values, xpos, ypos, rootRight) ==
    IF nodes = <<>> THEN <<>>
    ELSE <<TextOnBranchFunc(c, Str(tree.name[Head(nodes)]),
                            FormatLabel(values[Head(nodes)][1]),
                            IF rootRight /\ Head(nodes) = Root /\ xpos = "center"
                            THEN "right" ELSE xpos,
                            ypos)>>
         \o ShowFuncs(c, Tail(nodes), values, xpos, ypos, rootRight)

\* the nodes show_branch_length labels: not the root, a branch length set
BranchLengthNodes ==
    SelectSeq(FindClades(tree), LAMBDA i : i # Root /\ tree.bl[i] # None)

\* tv.show_branch_length(xpos=, ypos=)
ShowBranchLength(xpos, ypos) ==
    /\ CanCall
    /\ IF BranchLengthNodes # <<>> /\ (xpos \notin XPos \/ ypos \notin YPos)
       THEN Raise("show_branch_length", <<xpos, ypos>>, "ValueError")
       ELSE /\ cache' = IF BranchLengthNodes = <<>> THEN cache
                        ELSE Read(cache, TextOnBranchReads)
            /\ plot_funcs' = plot_funcs \o
                  ShowFuncs(cache', BranchLengthNodes, tree.bl, xpos, ypos, FALSE)
            /\ Return("show_branch_length", <<xpos, ypos>>)
            /\ UNCHANGED StyleVars

\* the nodes show_confidence labels: a confidence set
ConfidenceNodes == SelectSeq(FindClades(tree), LAMBDA i : tree.conf[i] # None)

\* tv.show_confidence(xpos=, ypos=)
ShowConfidence(xpos, ypos) ==
    /\ CanCall
    /\ IF ConfidenceNodes # <<>> /\ (xpos \notin XPos \/ ypos \notin YPos)
       THEN Raise("show_confidence", <<xpos, ypos>>, "ValueError")
       ELSE /\ cache' = IF ConfidenceNodes = <<>> THEN cache
                        ELSE Read(cache, TextOnBranchReads)
            /\ plot_funcs' = plot_funcs \o
                  ShowFuncs(cache', ConfidenceNodes, tree.conf, xpos, ypos, TRUE)
            /\ Return("show_confidence", <<xpos, ypos>>)
            /\ UNCHANGED StyleVars

\* tv.show_scale_axis()
ShowScaleAxis ==
    /\ CanCall
    /\ plot_funcs' = Append(plot_funcs, [kind |-> "scale_axis"])
    /\ Return("show_scale_axis", <<>>)
    /\ UNCHANGED <<StyleVars, cache>>

\* tv.show_scale_bar()
ShowScaleBar ==
    /\ CanCall
    /\ plot_funcs' = Append(plot_funcs, [kind |-> "scale_bar"])
    /\ Return("show_scale_bar", <<>>)
    /\ UNCHANGED <<StyleVars, cache>>

\* tv.highlight(query, color, area=)
Highlight(query, area) ==
    /\ CanCall
    /\ IF area \notin Areas \/ QueryRaises(query)
       THEN Raise("highlight", <<query, area>>, "ValueError")
       ELSE /\ cache' = Read(cache, {"name2rect"})
            /\ plot_funcs' = Append(plot_funcs,
                  [kind |-> "highlight", query |-> query, area |-> area,
                   rect |-> Get(cache', "name2rect")[SearchTargetNodeName(query)]])
            /\ Return("highlight", <<query, area>>)
            /\ UNCHANGED StyleVars

Orientations == {"horizontal", "vertical"}

\* tv.annotate(query, label, text_orientation=, align=)
Annotate(query, label, text_orientation, align) ==
    /\ CanCall
    /\ IF text_orientation \notin Orientations
       THEN Raise("annotate", <<query, label, text_orientation, align>>, "ValueError")
       ELSE /\ plot_funcs' = Append(plot_funcs,
                  [kind |-> "annotate", query |-> query, label |-> label,
                   rotation |-> IF text_orientation = "horizontal" THEN 0 ELSE -90,
                   align |-> align])
            /\ Return("annotate", <<query, label, text_orientation, align>>)
            /\ UNCHANGED <<StyleVars, cache>>

\* the point marker() plots for one node
MarkerPoint(c, i) ==
    LET xy == Get(c, "name2xy_right")[Str(tree.name[i])]
    IN  IF IsTerminal(tree, i) /\ input.align_leaf_label
        THEN <<Get(c, "max_tree_depth"), xy[2]>> ELSE xy

\* tv.marker(query, descendent=)
Marker(query, descendent) ==
    /\ CanCall
    /\ IF QueryRaises(query)
       THEN Raise("marker", <<query, descendent>>, "ValueError")
       ELSE LET target == FindByName(tree, SearchTargetNodeName(query))
                nodes == IF descendent THEN Subtree(tree, target) ELSE <<target>>
            IN  /\ cache' = Read(cache, {"name2xy_right"} \cup
                        (IF input.align_leaf_label
                            /\ \E k \in 1..Len(nodes) : IsTerminal(tree, nodes[k])
                         THEN {"max_tree_depth"} ELSE {}))
                /\ plot_funcs' = Append(plot_funcs,
                      [kind |-> "marker",
                       points |-> [k \in 1..Len(nodes) |-> MarkerPoint(cache', nodes[k])]])
                /\ Return("marker", <<query, descendent>>)
                /\ UNCHANGED StyleVars

\* tv.link(query1, query2, pos1=, pos2=)
Link(query1, query2, pos1, pos2) ==
    /\ CanCall
    /\ IF QueryRaises(query1) \/ QueryRaises(query2) \/ pos1 \notin XPos
       THEN Raise("link", <<query1, query2, pos1, pos2>>, "ValueError")
       ELSE IF pos2 \notin XPos
       THEN \* raised after the first _get_target_pos_name2xy read the maps
            /\ cache' = Read(cache, XYKeys)
            /\ last' = [op |-> "link", args |-> <<query1, query2, pos1, pos2>>,
                        raised |-> "ValueError"]
            /\ calls' = calls + 1
            /\ UNCHANGED <<BuildVars, StyleVars, AxVars, plot_funcs, log, prevLog,
                           renders, passes>>
       ELSE /\ cache' = Read(cache, XYKeys)
            /\ plot_funcs' = Append(plot_funcs,
                  [kind |-> "link",
                   xy1 |-> Get(cache', "name2xy_" \o pos1)[SearchTargetNodeName(query1)],
                   xy2 |-> Get(cache', "name2xy_" \o pos2)[SearchTargetNodeName(query2)]])
            /\ Return("link", <<query1, query2, pos1, pos2>>)
            /\ UNCHANGED StyleVars

\* tv.text_on_node(query, text)
TextOnNode(query, text) ==
    /\ CanCall
    /\ IF QueryRaises(query)
       THEN Raise("text_on_node", <<query, text>>, "ValueError")
       ELSE /\ cache' = Read(cache, {"name2xy_right"})
            /\ plot_funcs' = Append(plot_funcs,
                  LET xy == Get(cache', "name2xy_right")[SearchTargetNodeName(query)]
                  IN  [kind |-> "text", x |-> xy[1], y |-> xy[2], s |-> text,
                       size |-> 8, ha |-> "center", va |-> "center_baseline",
                       rotation |-> 0])
            /\ Return("text_on_node", <<query, text>>)
            /\ UNCHANGED StyleVars

\* d with the entries of e set: dict.update, d[k] = v
Update(d, e) == [k \in DOMAIN d \cup DOMAIN e |-> IF k \in DOMAIN e THEN e[k] ELSE d[k]]

\* a set_node_label_props that stores the properties before it looks the
\* name up
SetNodeLabelPropsUnchecked(target_node_label, kwargs) ==
    /\ CanCall
    /\ node2label_props' =
          Update(node2label_props, [k \in {target_node_label} |-> kwargs])
    /\ last' = [op |-> "set_node_label_props", args |-> <<target_node_label, kwargs>>,
                raised |-> IF QueryRaises(QName(target_node_label))
                           THEN "ValueError" ELSE ""]
    /\ calls' = calls + 1
    /\ renders' = 0
    /\ UNCHANGED <<BuildVars, AxVars, log, prevLog, passes, node2line_props,
                   tree_line_kws, tree_align_line_kws, plot_funcs, cache>>

\* tv.set_node_label_props(target_node_label, **kwargs)
SetNodeLabelProps(target_node_label, kwargs) ==
    /\ CanCall
    /\ IF QueryRaises(QName(target_node_label))
       THEN Raise("set_node_label_props", <<target_node_label, kwargs>>, "ValueError")
       ELSE /\ node2label_props' =
                  Update(node2label_props, [k \in {target_node_label} |-> kwargs])
            /\ Return("set_node_label_props", <<target_node_label, kwargs>>)
            /\ UNCHANGED <<node2line_props, tree_line_kws, tree_align_line_kws,
                           plot_funcs, cache>>

\* a set_node_line_props that adds the properties to those a node has
SetNodeLinePropsMerged(query, descendent, kwargs) ==
    /\ CanCall
    /\ IF QueryRaises(query)
       THEN Raise("set_node_line_props", <<query, descendent, kwargs>>, "ValueError")
       ELSE LET clade == FindByName(tree, SearchTargetNodeName(query))
                nodes == IF descendent THEN Subtree(tree, clade) ELSE <<clade>>
            IN  /\ node2line_props' =
                      Update(node2line_props,
                             [k \in {Str(tree.name[nodes[j]]) : j \in 1..Len(nodes)}
                                |-> IF k \in DOMAIN node2line_props
                                    THEN Update(node2line_props[k], kwargs)
                                    ELSE kwargs])
                /\ Return("set_node_line_props", <<query, descendent, kwargs>>)
                /\ UNCHANGED <<node2label_props, tree_line_kws, tree_align_line_kws,
                               plot_funcs, cache>>

\* tv.set_node_line_props(query, descendent=, **kwargs)
SetNodeLineProps(query, descendent, kwargs) ==
    /\ CanCall
    /\ IF QueryRaises(query)
       THEN Raise("set_node_line_props", <<query, descendent, kwargs>>, "ValueError")
       ELSE LET clade == FindByName(tree, SearchTargetNodeName(query))
                nodes == IF descendent THEN Subtree(tree, clade) ELSE <<clade>>
            IN  /\ node2line_props' =
                      Update(node2line_props,
                             [k \in {Str(tree.name[nodes[j]]) : j \in 1..Len(nodes)}
                                |-> kwargs])
                /\ Return("set_node_line_props", <<query, descendent, kwargs>>)
                /\ UNCHANGED <<node2label_props, tree_line_kws, tree_align_line_kws,
                               plot_funcs, cache>>

\* a title registered ahead of the commands already in the list
SetTitleFirst(label) ==
    /\ CanCall
    /\ plot_funcs' = <<[kind |-> "title", label |-> label]>> \o plot_funcs
    /\ Return("set_title", <<label>>)
    /\ UNCHANGED <<StyleVars, cache>>

\* tv.set_title(label)
SetTitle(label) ==
    /\ CanCall
    /\ plot_funcs' = Append(plot_funcs, [kind |-> "title", label |-> label])
    /\ Return("set_title", <<label>>)
    /\ UNCHANGED <<StyleVars, cache>>

\* tv.update_plot_props(tree_line_kws=, tree_align_line_kws=)
UpdatePlotProps(line_kws, align_line_kws) ==
    /\ CanCall
    /\ tree_line_kws' = Update(tree_line_kws, line_kws)
    /\ tree_align_line_kws' = Update(tree_align_line_kws, align_line_kws)
    /\ Return("update_plot_props", <<line_kws, align_line_kws>>)
    /\ UNCHANGED <<node2label_props, node2line_props, plot_funcs, cache>>

(***************************************************************************)
(* The render pass: plotfig.  log lists what the pass asked of the axes,   *)
(* each entry with the phase that issued it (0 _init_axes, 1 the tree      *)
(* lines, 2 the node labels, 3 the plot functions) and, in phase 3, the    *)
(* position of the plot function in self._plot_funcs.                      *)
(***************************************************************************)
LeafLabelXmarginRatio == <<1, 100>>
InnodeLabelXmarginRatio == <<1, 100>>
AnnotateXmarginRatio == <<1, 100>>

RECURSIVE Concat(_)
Concat(ss) == IF ss = <<>> THEN <<>> ELSE Head(ss) \o Concat(Tail(ss))

\* a defaultdict read: the value, and {} for a key it does not hold
DefaultGet(d, k) == IF k \in DOMAIN d THEN d[k] ELSE EmptyDict

\* the defaultdict after the keys were read: the missing ones hold {}
DefaultRead(d, keys) ==
    [k \in DOMAIN d \cup keys |-> IF k \in DOMAIN d THEN d[k] ELSE EmptyDict]

\* _plot_tree_node_line, for one child of one internal node
ChildLines(c, node, child_node) ==
    LET name2xy == Get(c, "name2xy_right")
        parent_xy == name2xy[Str(tree.name[node])]
        child_xy == name2xy[Str(tree.name[child_node])]
        kws == Update(tree_line_kws,
                      DefaultGet(node2line_props, Str(tree.name[child_node])))
        v_line == [op |-> "plot", phase |-> 1, cmd |-> 0,
                   x |-> <<parent_xy[1], parent_xy[1]>>,
                   y |-> <<parent_xy[2], child_xy[2]>>, kws |-> kws]
        h_line == [op |-> "plot", phase |-> 1, cmd |-> 0,
                   x |-> <<parent_xy[1], child_xy[1]>>,
                   y |-> <<child_xy[2], child_xy[2]>>, kws |-> kws]
        align_line == [op |-> "plot", phase |-> 1, cmd |-> 0,
                       x |-> <<child_xy[1], Get(c, "max_tree_depth")>>,
                       y |-> <<child_xy[2], child_xy[2]>>,
                       kws |-> Update(tree_align_line_kws, [color |-> kws.color])]
    IN  <<v_line, h_line>> \o
        (IF IsTerminal(tree, child_node) /\ input.align_leaf_label
         THEN <<align_line>> ELSE <<>>)

\* _plot_tree_node_line: the lines it plots, in order
PlotTreeNodeLine(c) ==
    LET nt == GetNonterminals(tree)
    IN  Concat([k \in 1..Len(nt) |->
            Concat([j \in 1..Len(Clades(tree, nt[k])) |->
                ChildLines(c, nt[k], Clades(tree, nt[k])[j])])])

\* the names whose line properties _plot_tree_node_line reads
LinePropsRead == {Str(tree.name[i]) : i \in Nodes(tree) \ {Root}}

\* whether _plot_node_label draws the label of node i
LabelShown(i) ==
    /\ (IF IsTerminal(tree, i) THEN input.leaf_label_size
        ELSE input.innode_label_size) > 0
    /\ ~(~input.show_auto_innode_label /\ InSeq(auto_innode_labels, Str(tree.name[i])))

\* _plot_node_label, for one node
NodeLabel(c, i) ==
    LET xy == Get(c, "name2xy_right")[Str(tree.name[i])]
        label_size == IF IsTerminal(tree, i) THEN input.leaf_label_size
                      ELSE input.innode_label_size
        label_xmargin == RMul(Get(c, "max_tree_depth"),
                              IF IsTerminal(tree, i) THEN LeafLabelXmarginRatio
                              ELSE InnodeLabelXmarginRatio)
        x == IF IsTerminal(tree, i) /\ input.align_leaf_label
             THEN RAdd(Get(c, "max_tree_depth"), label_xmargin)
             ELSE RAdd(xy[1], label_xmargin)
        text_kws == Update([size |-> label_size, ha |-> "left",
                            va |-> "center_baseline"],
                           DefaultGet(node2label_props, Str(tree.name[i])))
    IN  IF LabelShown(i)
        THEN <<[op |-> "text", phase |-> 2, cmd |-> 0, x |-> x, y |-> xy[2],
                s |-> Str(tree.name[i]), kws |-> text_kws]>>
        ELSE <<>>

\* _plot_node_label: the texts it plots, in order
PlotNodeLabel(c) == Concat([i \in 1..N(tree) |-> NodeLabel(c, i)])

\* the names whose label properties _plot_node_label reads
LabelPropsRead == {Str(tree.name[i]) : i \in {j \in Nodes(tree) : LabelShown(j)}}

\* the Text that ax.text adds to ax.texts
TextOf(e) ==
    [x |-> e.x, y |-> e.y, s |-> e.s, size |-> e.kws.size, ha |-> e.kws.ha,
     va |-> e.kws.va,
     rotation |-> IF "rotation" \in DOMAIN e.kws THEN e.kws.rotation ELSE 0]

TextsOf(entries) == [k \in 1..Len(entries) |-> TextOf(entries[k])]

\* text.get_window_extent() in data coordinates: what the backend measures
\* for a text, a function of its string, size, anchor and rotation
Extent(t) ==
    LET along == Rat(Len(t.s) * t.size, 100)
        across == Rat(t.size, 50)
        w == IF t.rotation = 0 THEN along ELSE across
        h == IF t.rotation = 0 THEN across ELSE along
        xmin == CASE t.ha = "left" -> t.x
                  [] t.ha = "right" -> RSub(t.x, w)
                  [] OTHER -> RSub(t.x, RDivInt(w, 2))
        ymin == CASE t.va = "bottom" -> t.y
                  [] t.va = "top" -> RSub(t.y, h)
                  [] OTHER -> RSub(t.y, RDivInt(h, 2))
    IN  [xmin |-> xmin, xmax |-> RAdd(xmin, w), ymin |-> ymin, ymax |-> RAdd(ymin, h)]

\* the rectangle from min and max of x_list and y_list; min() of an empty
\* list raises
TextsRect(x_list, y_list) ==
    IF x_list = <<>>
    THEN [raised |-> "ValueError", why |-> "empty", rect |-> None]
    ELSE [raised |-> "", why |-> "",
          rect |-> Rect(RMin(x_list), RMin(y_list),
                        RSub(RMax(x_list), RMin(x_list)),
                        RSub(RMax(y_list), RMin(y_list)))]

\* the extents of the target texts, gathered in x_list and y_list
TextsRectOver(e) ==
    TextsRect([k \in 1..Len(e) |-> e[k].xmin] \o [k \in 1..Len(e) |-> e[k].xmax],
              [k \in 1..Len(e) |-> e[k].ymin] \o [k \in 1..Len(e) |-> e[k].ymax])

\* the texts of the axes whose string is one of the labels
TargetTexts(texts, target_labels) == SelectSeq(texts, LAMBDA t : t.s \in target_labels)

Extents(target_texts) == [k \in 1..Len(target_texts) |-> Extent(target_texts[k])]

\* str(n.name) for n in node.get_terminals()
TargetLabels(leaves) == {Str(tree.name[leaves[k]]) : k \in 1..Len(leaves)}

\* _get_texts_rect(query) over the texts of self.ax: the rectangle, or what
\* it raised and why
GetTextsRect(texts, query) ==
    IF QueryRaises(query)
    THEN [raised |-> "ValueError", why |-> "not found", rect |-> None]
    ELSE TextsRectOver(Extents(TargetTexts(texts,
            TargetLabels(SubtreeLeaves(tree,
                FindByName(tree, SearchTargetNodeName(query)))))))

\* a width that adds to the stored one
HighlightWidthGrown(rect, texts_rect) ==
    RAdd(rect.width, RSub(RAdd(texts_rect.x, texts_rect.width), rect.x))

\* plot_highlight: the width rect.set_width gives the stored rectangle
HighlightWidth(rect, texts_rect) ==
    RSub(RAdd(texts_rect.x, texts_rect.width), rect.x)

\* the pass st stopped by an exception of plot function i
Aborted(st, i, r) ==
    [st EXCEPT !.raised = r.raised,
               !.log = Append(st.log, [op |-> "raise", phase |-> 3, cmd |-> i,
                                       exc |-> r.raised, why |-> r.why])]

Drawn(st, entry) == [st EXCEPT !.log = Append(st.log, entry)]

DrawnText(st, entry) ==
    [st EXCEPT !.log = Append(st.log, entry), !.texts = Append(st.texts, TextOf(entry))]

\* plot_highlight(ax), with the captured f and the rectangle r measured
HighlightWith(st, i, f, r) ==
    IF f.area = "branch"
    THEN Drawn(st, [op |-> "add_patch", phase |-> 3, cmd |-> i, rect |-> f.rect])
    ELSE IF r.raised # "" THEN Aborted(st, i, r)
    ELSE Drawn([st EXCEPT !.funcs[i].rect.width = HighlightWidth(f.rect, r.rect)],
               [op |-> "add_patch", phase |-> 3, cmd |-> i,
                rect |-> [f.rect EXCEPT !.width = HighlightWidth(f.rect, r.rect)]])

\* plot_highlight(ax)
PlotHighlight(st, i) ==
    HighlightWith(st, i, st.funcs[i],
        GetTextsRect(st.texts,
                     IF st.funcs[i].area = "branch-label" THEN st.funcs[i].query
                     ELSE QList(leaf_labels)))

\* the line and the label plot_annotate draws
AnnotateAt(st, i, f, xmax, ymin, ymax, xmargin) ==
    DrawnText(
        Drawn(st, [op |-> "plot", phase |-> 3, cmd |-> i,
                   x |-> <<RAdd(xmax, xmargin), RAdd(xmax, xmargin)>>,
                   y |-> <<ymin, ymax>>,
                   kws |-> [lw |-> 1, color |-> "black", clip_on |-> FALSE]]),
        [op |-> "text", phase |-> 3, cmd |-> i,
         x |-> RAdd(RAdd(xmax, xmargin), xmargin),
         y |-> RDivInt(RAdd(ymin, ymax), 2), s |-> f.label,
         kws |-> [size |-> 10, color |-> "black", va |-> "center",
                  ha |-> "left", rotation |-> f.rotation]])

\* plot_annotate(ax), with the captured f, the rectangle r of the query and
\* the rectangle all of every leaf label
AnnotateWith(st, i, f, r, all) ==
    IF r.raised # "" THEN Aborted(st, i, r)
    ELSE IF f.align /\ all.raised # "" THEN Aborted(st, i, all)
    ELSE AnnotateAt(st, i, f,
                    IF f.align THEN RAdd(all.rect.x, all.rect.width)
                    ELSE RAdd(r.rect.x, r.rect.width),
                    r.rect.y, RAdd(r.rect.y, r.rect.height),
                    RMul(MaxDepth(tree), AnnotateXmarginRatio))

\* plot_annotate(ax)
PlotAnnotate(st, i) ==
    AnnotateWith(st, i, st.funcs[i], GetTextsRect(st.texts, st.funcs[i].query),
                 GetTextsRect(st.texts, QList(leaf_labels)))

\* the plot functions that only pass what they captured to the axes
PlotCaptured(st, i, f) ==
    CASE f.kind = "text" ->
            DrawnText(st, [op |-> "text", phase |-> 3, cmd |-> i, x |-> f.x,
                           y |-> f.y, s |-> f.s,
                           kws |-> [size |-> f.size, va |-> f.va, ha |-> f.ha]])
      [] f.kind = "marker" ->
            Drawn(st, [op |-> "scatter", phase |-> 3, cmd |-> i,
                       points |-> f.points])
      [] f.kind = "link" ->
            DrawnText(st, [op |-> "annotate", phase |-> 3, cmd |-> i,
                           x |-> f.xy1[1], y |-> f.xy1[2], xy |-> f.xy2, s |-> "",
                           kws |-> [size |-> 10, va |-> "baseline", ha |-> "left"]])
      [] f.kind = "title" ->
            Drawn(st, [op |-> "set_title", phase |-> 3, cmd |-> i,
                       label |-> f.label])
      [] f.kind = "scale_axis" ->
            Drawn(st, [op |-> "set_position", phase |-> 3, cmd |-> i])
      [] f.kind = "scale_bar" ->
            Drawn(st, [op |-> "add_artist", phase |-> 3, cmd |-> i])

\* plot function i of the list, called with the axes of the pass
PlotFunc(st, i) ==
    IF st.funcs[i].kind = "highlight" THEN PlotHighlight(st, i)
    ELSE IF st.funcs[i].kind = "annotate" THEN PlotAnnotate(st, i)
    ELSE PlotCaptured(st, i, st.funcs[i])

\* for plot_func in self._get_plot_funcs(): plot_func(ax)
RECURSIVE PlotFuncs(_, _)
PlotFuncs(st, i) ==
    IF i > Len(st.funcs) \/ st.raised # "" THEN st
    ELSE PlotFuncs(PlotFunc(st, i), i + 1)

\* _init_axes(ax)
InitAxes(c, fresh) ==
    [op |-> "init_axes", phase |-> 0, cmd |-> 0,
     xlim |-> <<RI(0), Get(c, "max_tree_depth")>>,
     ylim |-> <<0, CountTerminals(tree) + 1>>, fresh |-> fresh]

\* the pass when the plot functions are about to run: the lines and labels
\* are drawn, the texts of the axes are those it had and the labels
Phase3Start(init, lines, labels, before) ==
    [log |-> <<init>> \o lines \o labels, texts |-> before \o TextsOf(labels),
     funcs |-> plot_funcs, raised |-> ""]

\* the state a pass leaves: c the cache after its reads, st where it ended
PlotFigEnd(fresh, c, st) ==
    /\ cache' = c
    /\ ax' = IF fresh THEN Len(axes) + 1 ELSE ax
    /\ axes' = IF fresh THEN Append(axes, st.texts) ELSE [axes EXCEPT ![ax] = st.texts]
    /\ node2line_props' = DefaultRead(node2line_props, LinePropsRead)
    /\ node2label_props' = DefaultRead(node2label_props, LabelPropsRead)
    /\ plot_funcs' = st.funcs
    /\ prevLog' = log
    /\ log' = st.log
    /\ last' = [op |-> "plotfig", args |-> <<fresh>>, raised |-> st.raised]
    /\ renders' = renders + 1
    /\ passes' = passes + 1
    /\ UNCHANGED <<BuildVars, tree_line_kws, tree_align_line_kws, calls>>

PlotFigWith(fresh, c) ==
    PlotFigEnd(fresh, c,
        PlotFuncs(Phase3Start(InitAxes(c, fresh), PlotTreeNodeLine(c),
                              PlotNodeLabel(c),
                              IF fresh THEN <<>> ELSE axes[ax]), 1))

\* tv.plotfig(ax=...): on new axes, or on the axes of the pass before
PlotFig(fresh) ==
    /\ status = "ready"
    /\ passes < MaxRenders
    /\ fresh \/ ax # 0
    /\ PlotFigWith(fresh, Read(cache, {"max_tree_depth", "name2xy_right"}))

(***************************************************************************)
(* The engine: a tree is loaded, calls register plot functions and styles, *)
(* render passes run them.                                                 *)
(***************************************************************************)
\* ((A:1,B:2)90:1,C:3);
MeasuredTree ==
    [parent |-> <<0, 1, 2, 2, 1>>,
     name |-> <<None, None, Some("A"), Some("B"), Some("C")>>,
     bl |-> <<None, Some(RI(1)), Some(RI(1)), Some(RI(2)), Some(RI(3))>>,
     conf |-> <<None, Some(PyInt(90)), None, None, None>>]

EngineInputs ==
    {Input(MeasuredTree, DefaultOptions),
     Input(MeasuredTree, [DefaultOptions EXCEPT !.leaf_label_size = 0]),
     Input(PlainTree(<<0, 1, 1>>), DefaultOptions)}

QA == QName("A")
QAB == QList(<<"A", "B">>)
QZ == QName("Z")

HighlightArgs ==
    {<<QAB, "branch">>, <<QAB, "branch-label">>, <<QA, "full">>, <<QZ, "full">>,
     <<QA, "around">>}
AnnotateArgs ==
    {<<QAB, "A", "horizontal", FALSE>>, <<QA, "g", "vertical", TRUE>>,
     <<QZ, "g", "horizontal", FALSE>>, <<QA, "g", "diagonal", FALSE>>}
MarkerArgs == {<<QAB, TRUE>>, <<QA, FALSE>>, <<QZ, FALSE>>}
LinkArgs ==
    {<<QA, QAB, "center", "left">>, <<QA, QZ, "center", "center">>,
     <<QA, QAB, "middle", "center">>, <<QA, QAB, "center", "middle">>}
TextOnBranchArgs ==
    {<<QAB, "t", "right", "top">>, <<QZ, "t", "right", "top">>,
     <<QA, "t", "middle", "top">>, <<QA, "t", "left", "middle">>}
TextOnNodeArgs == {<<QAB, "t">>, <<QZ, "t">>}
ShowArgs == {<<"center", "top">>, <<"middle", "top">>, <<"center", "middle">>}
LabelPropsArgs == {<<"A", [color |-> "grey"]>>, <<"Z", [color |-> "grey"]>>}
LinePropsArgs ==
    {<<QAB, TRUE, [color |-> "orange"]>>, <<QA, FALSE, [lw |-> 2]>>,
     <<QZ, TRUE, [color |-> "orange"]>>}

Init == InitWith(EngineInputs)

Next ==
    \/ Construct
    \/ \E a \in ShowArgs : ShowBranchLength(a[1], a[2])
    \/ \E a \in ShowArgs : ShowConfidence(a[1], a[2])
    \/ ShowScaleAxis
    \/ ShowScaleBar
    \/ \E a \in HighlightArgs : Highlight(a[1], a[2])
    \/ \E a \in AnnotateArgs : Annotate(a[1], a[2], a[3], a[4])
    \/ \E a \in MarkerArgs : Marker(a[1], a[2])
    \/ \E a \in LinkArgs : Link(a[1], a[2], a[3], a[4])
    \/ \E a \in TextOnBranchArgs : TextOnBranch(a[1], a[2], a[3], a[4])
    \/ \E a \in TextOnNodeArgs : TextOnNode(a[1], a[2])
    \/ \E a \in LabelPropsArgs : SetNodeLabelProps(a[1], a[2])
    \/ \E a \in LinePropsArgs : SetNodeLineProps(a[1], a[2], a[3])
    \/ SetTitle("title")
    \/ UpdatePlotProps([color |-> "red"], EmptyDict)
    \/ \E fresh \in BOOLEAN : PlotFig(fresh)

Spec == Init /\ [][Next]_vars

(***************************************************************************)
(* The engine with the ax property read between the calls                  *)
(***************************************************************************)
\* an ax property that hands out self._ax as it is
AxPropertyUnguarded == [raised |-> "", value |-> ax]

\* the ax property: self._ax, or the error when it is None
AxProperty ==
    IF ax = 0 THEN [raised |-> "ValueError", value |-> 0]
    ELSE [raised |-> "", value |-> ax]

\* tv.ax
ReadAx ==
    /\ status = "ready"
    /\ last' = [op |-> "ax", args |-> <<>>, raised |-> AxProperty.raised,
                result |-> AxProperty.value]
    /\ UNCHANGED <<BuildVars, StyleVars, AxVars, plot_funcs, cache, log, prevLog,
                   renders, passes, calls>>

NextAx == Next \/ ReadAx
SpecAx == Init /\ [][NextAx]_vars

(***************************************************************************)
(* Query resolution on its own: a tree is loaded and                       *)
(* _search_target_node_name is applied to queries over its names and over  *)
(* names it does not have.                                                 *)
(***************************************************************************)
ResolveInputs ==
    {Input(PlainTree(p), DefaultOptions) :
        p \in UNION {Shapes(n) : n \in 1..MaxQueryNodes}}

\* the names a query may hold: those of the tree and two it does not have
QueryNames == {all_node_labels[k] : k \in DOMAIN all_node_labels} \cup {"Y", "Z"}

Queries ==
    {QName(s) : s \in QueryNames}
        \cup {QList(q) : q \in UNION {[1..k -> QueryNames] : k \in 1..MaxQueryLen}}

\* self._search_target_node_name(query): what it returns, or what it raised
\* with the names and the available names its message lists.  It reads the
\* tree only, so it is applied once to each loaded tree.
Resolve(query) ==
    /\ status = "ready"
    /\ last.op = "__init__"
    /\ last' = [op |-> "_search_target_node_name", args |-> <<query>>,
                raised |-> IF QueryRaises(query) THEN "ValueError" ELSE "",
                missing |-> MissingNames(query),
                available |-> IF QueryRaises(query) THEN all_node_labels ELSE <<>>,
                result |-> IF QueryRaises(query) THEN None
                           ELSE Some(SearchTargetNodeName(query))]
    /\ UNCHANGED <<BuildVars, StyleVars, AxVars, plot_funcs, cache, log, prevLog,
                   renders, passes, calls>>

InitResolve == InitWith(ResolveInputs)
NextResolve == Construct \/ \E q \in Queries : Resolve(q)
SpecResolve == InitResolve /\ [][NextResolve]_vars

(***************************************************************************)
(* The layout on its own: a tree with any branch lengths is loaded and the *)
(* cached properties are read, in any order.                               *)
(***************************************************************************)
LayoutInputs ==
    {[inp EXCEPT !.reverse = o[1], !.align_leaf_label = o[2]] :
        <<inp, o>> \in {i \in LengthInputs : ~i.ignore_branch_length}
                          \X {<<FALSE, FALSE>>, <<TRUE, FALSE>>, <<FALSE, TRUE>>}}

\* tv.max_tree_depth, tv.name2xy_right, tv.name2xy_center, tv.name2xy_left,
\* tv.name2rect: the first read computes the property and keeps it
ReadProperty(key) ==
    /\ status = "ready"
    /\ cache' = Read(cache, {key})
    /\ UNCHANGED <<BuildVars, StyleVars, AxVars, plot_funcs, log, prevLog,
                   renders, passes, calls, last>>

InitLayout == InitWith(LayoutInputs)
NextLayout == Construct \/ \E key \in AllKeys : ReadProperty(key)
SpecLayout == InitLayout /\ [][NextLayout]_vars

(***************************************************************************)
(* Claims about construction, checked under SpecBuild                      *)
(***************************************************************************)
Leaves(t) == {i \in Nodes(t) : IsTerminal(t, i)}
Internal(t) == Nodes(t) \ Leaves(t)

\* the number of edges between the root and node i
EdgeCount(t, i) == Len(GetPath(t, i))
MaxEdgeCount(t) == CHOOSE m \in 0..N(t) :
    /\ \E i \in Leaves(t) : EdgeCount(t, i) = m
    /\ \A i \in Leaves(t) : EdgeCount(t, i) <= m

\* normalization is asked for, or the tree carries no positive branch length
NormalizationRuns(inp) ==
    \/ inp.ignore_branch_length
    \/ \A i \in Nodes(inp.tree) : BLOrZero(inp.tree, i) = RI(0)

\* C1: after a normalization, requested or automatic, all leaves of the
\* resulting tree have the same cumulative depth from the root.
C1_LeavesShareDepth ==
    (status = "ready" /\ NormalizationRuns(input)) =>
        \A i, j \in Leaves(tree) :
            DepthOf(tree, FALSE, i) = DepthOf(tree, FALSE, j)

\* the largest root-to-leaf cumulative branch length of the tree as given
OriginalMaxDepth(inp) ==
    RMax([k \in 1..CountTerminals(inp.tree) |->
            DepthOf(inp.tree, FALSE, GetTerminals(inp.tree)[k])])

\* C2 as stated: after normalization every leaf's cumulative depth equals the
\* maximum root-to-leaf cumulative branch length of the tree before it.
C2_LeafDepthIsOriginalMax ==
    (status = "ready" /\ NormalizationRuns(input)) =>
        \A i \in Leaves(tree) :
            DepthOf(tree, FALSE, i) = OriginalMaxDepth(input)

\* C2 amended: after normalization a leaf with the largest number E of edges
\* below the root has cumulative depth E, and every other leaf has depth E
\* plus the branch length the root carried before (E when it carried none).
C2_LeafDepthIsEdgeCount ==
    (status = "ready" /\ NormalizationRuns(input)) =>
        \A i \in Leaves(tree) :
            DepthOf(tree, FALSE, i) =
                IF EdgeCount(input.tree, i) = MaxEdgeCount(input.tree)
                THEN RI(MaxEdgeCount(input.tree))
                ELSE RAdd(RI(MaxEdgeCount(input.tree)), BLOrZero(input.tree, Root))

C2_Witness ==
    /\ status = "ready"
    /\ input.ignore_branch_length
    /\ BLOrZero(input.tree, Root) = RI(2)
    /\ OriginalMaxDepth(input) = RI(5)
    /\ \E i \in Leaves(tree) : EdgeCount(tree, i) < MaxEdgeCount(tree)

\* the names of the tree once the unnamed internal nodes are named
NamesAfterNaming(inp) == AllNodeNames(SetUniqInnodeName(inp.tree).tree)

Occurrences(names, s) == Cardinality({i \in DOMAIN names : names[i] = s})

\* C9: construction fails for every tree in which a node name occurs more than
\* once after the synthetic names are assigned; the error lists every
\* duplicated name with its count, and no instance is produced.
C9_DuplicateNamesRejected ==
    LET names == NamesAfterNaming(input)
        dup == {s \in {names[i] : i \in DOMAIN names} : Occurrences(names, s) > 1}
    IN  (status # "new" /\ dup # {}) =>
            /\ status = "failed"
            /\ err.kind = "ValueError"
            /\ err.dups = {<<s, Occurrences(names, s)>> : s \in dup}
            /\ tree = NoTree

C9_Witness ==
    /\ status = "failed"
    /\ \E d \in err.dups : d[2] = 2
    /\ \E d \in err.dups : d[2] = 3 \/ Cardinality(err.dups) = 2

\* the position of node i among the internal nodes of a sequence of nodes
InnerRank(t, order, i) == IndexIn(SelectNodes(t, order, FALSE), i)

\* C10 as stated: an unnamed internal node is named N_<k>, k its number in a
\* level-order traversal; the recorded synthetic names are those assigned.
C10_NamedInLevelOrder ==
    status = "ready" =>
        /\ \A i \in Internal(tree) :
              input.tree.name[i] = None =>
                  tree.name[i] = Some(NName(InnerRank(tree, LevelOrder(tree), i)))
        /\ {auto_innode_labels[k] : k \in DOMAIN auto_innode_labels}
              = {Str(tree.name[i]) : i \in {j \in Internal(tree) : input.tree.name[j] = None}}

\* C10 amended: an unnamed internal node is named N_<k>, k its number among
\* all internal nodes (named or not) in depth-first preorder, from 1; the
\* recorded synthetic names are exactly the names assigned this way.
C10_NamedInPreorder ==
    status = "ready" =>
        /\ \A i \in Internal(tree) :
              input.tree.name[i] = None =>
                  tree.name[i] =
                    Some(NName(Cardinality({j \in Internal(tree) : j <= i})))
        /\ {auto_innode_labels[k] : k \in DOMAIN auto_innode_labels}
              = {Str(tree.name[i]) : i \in {j \in Internal(tree) : input.tree.name[j] = None}}

C10_Witness ==
    /\ status = "ready"
    /\ InnodeOrderByLevel(tree) # GetNonterminals(tree)
    /\ Len(auto_innode_labels) = 4

(***************************************************************************)
(* Claims about the registry and the render pass, checked under Spec       *)
(***************************************************************************)
\* the node queries the last call was given
LastQueries ==
    CASE last.op \in {"highlight", "annotate", "marker", "text_on_branch",
                      "text_on_node", "set_node_line_props"} -> {last.args[1]}
      [] last.op = "link" -> {last.args[1], last.args[2]}
      [] last.op = "set_node_label_props" -> {QName(last.args[1])}
      [] OTHER -> {}

\* the exceptions that ended the last render pass
Raises == SelectSeq(log, LAMBDA e : e.op = "raise")

\* C3: a registration call given a query that names no node of the tree
\* fails itself, and no render pass fails because a queried name is not found.
C3_QueryResolvedAtRegistration ==
    /\ (\E q \in LastQueries : QueryRaises(q)) => last.raised # ""
    /\ \A k \in DOMAIN Raises : Raises[k].why # "not found"

\* the enumerated options the last call was given, each with its allowed set
LastOptions ==
    CASE last.op = "text_on_branch" ->
            {<<last.args[3], XPos>>, <<last.args[4], YPos>>}
      [] last.op \in {"show_branch_length", "show_confidence"} ->
            {<<last.args[1], XPos>>, <<last.args[2], YPos>>}
      [] last.op = "highlight" -> {<<last.args[2], Areas>>}
      [] last.op = "link" -> {<<last.args[3], XPos>>, <<last.args[4], XPos>>}
      [] last.op = "annotate" -> {<<last.args[3], Orientations>>}
      [] OTHER -> {}

\* C4: a registration call given an enumerated option outside its allowed
\* set fails at that call, on every tree.
C4_InvalidOptionRejected ==
    (\E o \in LastOptions : o[1] \notin o[2]) => last.raised # ""

\* the plot functions a pass ran to their end, in the order it ran them
Executed ==
    LET done == SelectSeq(log, LAMBDA e : e.phase = 3 /\ e.op # "raise")
    IN  [k \in DOMAIN done |-> done[k].cmd]

\* C5: a render pass draws every tree line, then every node label, then runs
\* every registered plot function exactly once in registration order.
C5_ThreePhasesInOrder ==
    last.op = "plotfig" =>
        /\ \A j, k \in DOMAIN log : j < k => log[j].phase <= log[k].phase
        /\ SelectSeq(log, LAMBDA e : e.phase = 1) = PlotTreeNodeLine(cache)
        /\ SelectSeq(log, LAMBDA e : e.phase = 2) = PlotNodeLabel(cache)
        /\ \A j, k \in DOMAIN Executed : j < k => Executed[j] <= Executed[k]
        /\ {Executed[k] : k \in DOMAIN Executed} = 1..Len(plot_funcs)

\* C6: a plot function that measures leaf label texts finds them drawn: no
\* render pass fails for lack of a text to measure, whatever the label sizes.
C6_MeasuredTextDrawn ==
    \A k \in DOMAIN Raises : Raises[k].why # "empty"

\* C7: a render pass leaves the plot functions with what they captured, the
\* label and line property maps and the computed coordinate and rectangle
\* maps as they were.
C7_RenderKeepsRegistry ==
    [][passes' = passes + 1 =>
          /\ plot_funcs' = plot_funcs
          /\ node2label_props' = node2label_props
          /\ node2line_props' = node2line_props
          /\ \A k \in AllKeys : cache[k] # None => cache'[k] = cache[k]]_vars

\* the last two passes ran with no call returning in between, each on axes
\* that held nothing
TwoFreshPasses == renders >= 2 /\ log[1].fresh /\ prevLog[1].fresh

\* C8: two render passes from the same engine state, each onto its own axes,
\* issue the same draw operations with the same coordinates, extents, styles.
C8_RerenderIdempotent == TwoFreshPasses => log = prevLog

C8_Witness ==
    /\ TwoFreshPasses
    /\ last.raised = ""
    /\ \E k \in DOMAIN plot_funcs :
          plot_funcs[k].kind = "highlight" /\ plot_funcs[k].area = "branch-label"
    /\ \E k \in DOMAIN plot_funcs : plot_funcs[k].kind = "annotate"

(***************************************************************************)
(* Claims about query resolution, checked under SpecResolve                *)
(***************************************************************************)
\* the node that carries the name
NodeNamed(t, s) == CHOOSE i \in Nodes(t) : t.name[i] = Some(s)

\* the nodes that are an ancestor of, or equal to, every node of the set
CommonAncestors(t, S) ==
    {a \in Nodes(t) : \A i \in S : a \in AncSelf(t.parent, i)}

\* the one of them farthest from the root
Deepest(t, A) == CHOOSE a \in A : \A b \in A : EdgeCount(t, b) <= EdgeCount(t, a)

LastResolved == last.op = "_search_target_node_name"

\* C11: for a list of valid node names the resolution returns the name of the
\* deepest node that is an ancestor of, or equal to, every queried node; for
\* a single valid name it returns the name itself.
C11_ResolveReturnsMRCA ==
    (LastResolved /\ last.raised = "") =>
        LET q == last.args[1]
            S == {NodeNamed(tree, q.names[k]) : k \in DOMAIN q.names}
        IN  last.result =
                IF q.list
                THEN Some(Str(tree.name[Deepest(tree, CommonAncestors(tree, S))]))
                ELSE Some(q.names[1])

C11_Witness ==
    /\ LastResolved /\ last.raised = ""
    /\ last.args[1].list /\ Len(last.args[1].names) = 3
    /\ LET q == last.args[1]
           mrca == NodeNamed(tree, last.result[1])
       IN  /\ mrca # Root
           /\ \A k \in DOMAIN q.names : IsTerminal(tree, NodeNamed(tree, q.names[k]))
           /\ Deepest(tree, CommonAncestors(tree,
                  {NodeNamed(tree, q.names[1]), NodeNamed(tree, q.names[2])})) # mrca

\* C12: a query with at least one name that is no node name of the tree
\* fails, nothing is resolved, and the error lists every missing name of
\* the query together with all the node names of the tree.
C12_MissingNamesListed ==
    LastResolved =>
        LET q == last.args[1]
            absent == {k \in DOMAIN q.names : q.names[k] \notin NameSet(tree)}
        IN  absent # {} =>
                /\ last.raised = "ValueError"
                /\ last.result = None
                /\ {last.missing[k] : k \in DOMAIN last.missing}
                      = {q.names[k] : k \in absent}
                /\ {last.available[k] : k \in DOMAIN last.available} = NameSet(tree)

C12_Witness ==
    /\ LastResolved /\ last.raised = "ValueError"
    /\ last.missing = <<"Z", "Y">>
    /\ last.args[1].names[2] \in NameSet(tree)
    /\ Len(last.available) = 5

(***************************************************************************)
(* Claims about the layout, checked under SpecLayout                       *)
(***************************************************************************)
\* the coordinate of node i in a map keyed by name
At(m, i) == m[Str(tree.name[i])]

\* C13: in every coordinate map the leaves carry the ranks 1..N, each once:
\* the k-th leaf in natural order has y = N + 1 - k, or y = k when the
\* reverse flag is set.
C13_LeafRanks ==
    \A key \in XYKeys :
        cache[key] # None =>
            LET lv == GetTerminals(tree)
            IN  \A k \in 1..Len(lv) :
                    Get(cache, key)[Str(tree.name[lv[k]])][2]
                        = RI(IF input.reverse THEN k ELSE Len(lv) + 1 - k)

C13_Witness ==
    /\ cache.name2xy_left # None
    /\ ~input.reverse
    /\ CountTerminals(tree) = 3
    /\ At(Get(cache, "name2xy_left"), GetTerminals(tree)[1])[2] = RI(3)

\* the branch lengths on the edges from the root down to node i, a missing
\* length counted as 0
RECURSIVE PathLength(_, _)
PathLength(t, i) ==
    IF i = Root THEN RI(0) ELSE RAdd(PathLength(t, t.parent[i]), BLOrZero(t, i))

\* C14: the x of every node's right coordinate is the cumulative branch
\* length along the path from the root to the node.
C14_RightXIsDepth ==
    cache.name2xy_right # None =>
        \A i \in Nodes(tree) :
            Get(cache, "name2xy_right")[Str(tree.name[i])][1] = PathLength(tree, i)

C14_Witness ==
    /\ cache.name2xy_right # None
    /\ tree.bl[Root] = Some(RI(2))
    /\ \E i \in Nodes(tree) :
          /\ IsTerminal(tree, i) /\ EdgeCount(tree, i) = 2
          /\ tree.bl[tree.parent[i]] = None
          /\ PathLength(tree, i) = RI(2)

\* C15: a node's left x is its parent's right x, its center x is the mean of
\* its own and its parent's right x, the root has the same coordinate in the
\* three maps, and a node's y is the same in the three maps.
C15_LeftCenterFromRight ==
    /\ cache.name2xy_left # None =>
          \A i \in Nodes(tree) :
              At(Get(cache, "name2xy_left"), i) =
                  IF i = Root THEN At(Get(cache, "name2xy_right"), i)
                  ELSE <<At(Get(cache, "name2xy_right"), tree.parent[i])[1],
                         At(Get(cache, "name2xy_right"), i)[2]>>
    /\ cache.name2xy_center # None =>
          \A i \in Nodes(tree) :
              At(Get(cache, "name2xy_center"), i) =
                  IF i = Root THEN At(Get(cache, "name2xy_right"), i)
                  ELSE <<RDivInt(RAdd(At(Get(cache, "name2xy_right"), i)[1],
                                      At(Get(cache, "name2xy_right"), tree.parent[i])[1]),
                                 2),
                         At(Get(cache, "name2xy_right"), i)[2]>>

C15_Witness ==
    /\ cache.name2xy_left # None /\ cache.name2xy_center # None
    /\ \E i \in Nodes(tree) :
          /\ EdgeCount(tree, i) = 2
          /\ At(Get(cache, "name2xy_center"), i)[1] = <<5, 2>>
          /\ At(Get(cache, "name2xy_left"), i)[1] = RI(2)

(***************************************************************************)
(* Claims about when and how the tree is normalized                        *)
(***************************************************************************)
\* the largest cumulative branch length from the root to a leaf
MaxPathLength(t) ==
    RMax([k \in 1..CountTerminals(t) |-> PathLength(t, GetTerminals(t)[k])])

\* the tree went through _to_ultrametric_tree: its root carries the int 0
Normalized == tree.bl[Root] = Some(PyInt(0))

\* C16: normalization runs during construction if and only if it was asked
\* for or the largest root-to-leaf cumulative branch length of the loaded
\* tree is 0; otherwise the tree keeps the branch lengths it was loaded with.
C16_NormalizedIffAskedOrFlat ==
    status = "ready" =>
        /\ Normalized <=>
              (input.ignore_branch_length \/ MaxPathLength(input.tree) = RI(0))
        /\ ~Normalized => tree.bl = input.tree.bl

\* C17 (SpecRebuild): when a tree that came out of a normalization is
\* normalized again, every leaf ends at the largest depth the first
\* normalization produced.
C17_RenormalizationKeepsDepth ==
    (status = "ready" /\ input.tree.bl[Root] = Some(PyInt(0))
        /\ NormalizationRuns(input)) =>
        \A i \in Leaves(tree) :
            DepthOf(tree, FALSE, i) = MaxPathLength(input.tree)

\* C18 (SpecBuild): a construction leaves the caller's tree as it was and
\* builds self._tree as another object; the tree it builds has the
\* structure, the child order, the confidences and every given name of the
\* caller's tree.
C18_CallerTreeUntouched ==
    [][(status = "new" /\ status' # "new") =>
          /\ input'.tree = input.tree
          /\ ~last'.shared
          /\ status' = "ready" =>
                /\ tree'.parent = input.tree.parent
                /\ tree'.conf = input.tree.conf
                /\ \A i \in Nodes(input.tree) :
                      input.tree.name[i] # None => tree'.name[i] = input.tree.name[i]]_vars

C18_Witness ==
    /\ status = "ready"
    /\ ~last.shared
    /\ input.ignore_branch_length
    /\ input.tree.name[Root] = None /\ tree.name[Root] = Some("N_1")
    /\ \E i \in Nodes(tree) : input.tree.bl[i] = Some(RI(2)) /\ tree.bl[i] = Some(PyInt(1))

(***************************************************************************)
(* Further claims about the registry and the render pass, under Spec       *)
(***************************************************************************)
\* the leaf labels the last pass drew
LeafLabelsDrawn ==
    SelectSeq(log, LAMBDA e : e.phase = 2 /\ InSeq(leaf_labels, e.s))

\* the right edge of the rectangle that spans them
LeafLabelsRight ==
    RMax([j \in DOMAIN LeafLabelsDrawn |-> Extent(TextOf(LeafLabelsDrawn[j])).xmax])

\* C19: a highlight with area "full" is drawn as a rectangle whose right edge
\* is the right edge of the rectangle spanning all leaf labels, whatever the
\* query; its left edge and vertical span are those of the rectangle of the
\* queried node.
C19_FullHighlightSpansLabels ==
    \A k \in DOMAIN log :
        (log[k].op = "add_patch" /\ plot_funcs[log[k].cmd].area = "full") =>
            LET base == Get(cache, "name2rect")[
                            SearchTargetNodeName(plot_funcs[log[k].cmd].query)]
            IN  /\ LeafLabelsDrawn # <<>>
                /\ RAdd(log[k].rect.x, log[k].rect.width) = LeafLabelsRight
                /\ log[k].rect.x = base.x
                /\ log[k].rect.y = base.y
                /\ log[k].rect.height = base.height

\* the number of commands a call that returns is to register
Registers(call) ==
    CASE call.op \in {"highlight", "annotate", "marker", "link", "text_on_branch",
                      "text_on_node", "set_title", "show_scale_axis",
                      "show_scale_bar"} -> 1
      [] call.op = "show_branch_length" -> Len(BranchLengthNodes)
      [] call.op = "show_confidence" -> Len(ConfidenceNodes)
      [] OTHER -> 0

\* C20: a registration or styling call leaves the commands registered before
\* it as they were and in their order: one that fails leaves the list as it
\* was, one that returns adds its commands at the end; no such call changes
\* a coordinate or rectangle map that was computed.
C20_RegistryAppendOnly ==
    [][calls' = calls + 1 =>
          /\ Len(plot_funcs') >= Len(plot_funcs)
          /\ SubSeq(plot_funcs', 1, Len(plot_funcs)) = plot_funcs
          /\ Len(plot_funcs') = Len(plot_funcs) +
                (IF last'.raised # "" THEN 0 ELSE Registers(last'))
          /\ \A k \in AllKeys : cache[k] # None => cache'[k] = cache[k]]_vars

C20_Witness ==
    /\ calls = 2
    /\ last.op = "highlight" /\ last.raised = ""
    /\ Len(plot_funcs) = 2
    /\ plot_funcs[1].kind = "text"
    /\ cache.name2xy_left # None /\ cache.name2rect # None

(***************************************************************************)
(* The ax property, checked under SpecAx                                   *)
(***************************************************************************)
\* C21: reading ax before the first render pass raises; after a pass it
\* returns the axes of the most recent pass, whether that pass created them
\* or drew again on the axes of the pass before, and also when it raised.
C21_AxAfterPlotfig ==
    last.op = "ax" =>
        IF passes = 0 THEN last.raised = "ValueError"
        ELSE last.raised = "" /\ last.result = Len(axes)

C21_Witness ==
    /\ last.op = "ax" /\ last.raised = ""
    /\ last.result = 2
    /\ Raises # <<>>

(***************************************************************************)
(* Claims about the normalization algorithm, checked under SpecBuild       *)
(***************************************************************************)
\* leaf a is processed before leaf b: the deeper first, the earlier in
\* preorder first among equals
Before(d, a, b) == RLt(d[b], d[a]) \/ (d[a] = d[b] /\ a < b)

\* the first leaf, in that order, whose path from the root holds node i
FirstLeaf(t, d, i) ==
    CHOOSE a \in Leaves(t) :
        /\ i \in AncSelf(t.parent, a)
        /\ \A b \in Leaves(t) :
              (i \in AncSelf(t.parent, b) /\ b # a) => Before(d, a, b)

\* the length the reference algorithm gives the edge above node i, the leaves
\* taken by the depths d: 1 on the path of a leaf of the largest depth, else
\* an even share of what the edges fixed before leave of the largest depth
RECURSIVE RefLength(_, _, _)
RefLength(t, d, i) ==
    LET a == FirstLeaf(t, d, i)
        path == AncSelf(t.parent, a) \ {Root}
        own == {j \in path : FirstLeaf(t, d, j) = a}
        fixed == [k \in 1..Len(GetPath(t, a)) |->
                    IF GetPath(t, a)[k] \in own THEN RI(0)
                    ELSE RefLength(t, d, GetPath(t, a)[k])]
    IN  IF d[a] = RMax(d) THEN RI(1)
        ELSE RDivInt(RSub(RMax(d), RSum(fixed)), Cardinality(own))

\* a branch length as a number
Num(b) == <<b[1][1], b[1][2]>>

\* the tree carries what the reference algorithm gives, the leaves taken by d
FollowsReference(d) ==
    /\ BLOrZero(tree, Root) = RI(0)
    /\ \A i \in Nodes(tree) \ {Root} :
          tree.bl[i] # None /\ Num(tree.bl[i]) = RefLength(tree, d, i)

\* C22 as stated: the leaves are taken in descending order of the depth
\* computed from the original branch lengths, a missing length counted as 0.
C22_OrderedByRawDepth ==
    (status = "ready" /\ NormalizationRuns(input)) =>
        FollowsReference(Depths(input.tree, FALSE))

\* C22 amended: the leaves are taken in descending order of their unit depth,
\* the number of edges below the root plus the length the root carried; the
\* edges on the path of a leaf of the largest unit depth get 1, every later
\* leaf shares what is left of the largest unit depth evenly over the edges
\* of its path not yet fixed, and the root gets 0.
C22_OrderedByUnitDepth ==
    (status = "ready" /\ NormalizationRuns(input)) =>
        FollowsReference(Depths(input.tree, TRUE))

C22_Witness ==
    /\ status = "ready" /\ input.ignore_branch_length
    /\ N(tree) = 4
    /\ \E i, j \in Leaves(tree) :
          /\ RLt(DepthOf(input.tree, FALSE, j), DepthOf(input.tree, FALSE, i))
          /\ EdgeCount(tree, i) = 1 /\ EdgeCount(tree, j) = 2
          /\ Num(tree.bl[i]) = RI(2)

AssignedTo(i) ==
    LET to(e) == e.node = i
    IN  SelectSeq(ToUltrametricTree(SetUniqInnodeName(input.tree).tree).assigned, to)

UnitDepths == Depths(input.tree, TRUE)

\* C24 as stated: every edge below the root is assigned exactly once, by the
\* first leaf in processing order whose path holds it, and none is left unset.
C24_AssignedExactlyOnce ==
    (status = "ready" /\ NormalizationRuns(input)) =>
        \A i \in Nodes(tree) \ {Root} :
            /\ Len(AssignedTo(i)) = 1
            /\ AssignedTo(i)[1].leaf = FirstLeaf(tree, UnitDepths, i)
            /\ tree.bl[i] = Some(AssignedTo(i)[1].value)

\* C24: every edge below the root gets its length from the first leaf in
\* processing order whose path holds it and keeps that length; it is assigned
\* again only by further leaves of the largest unit depth, which store the
\* same length 1 once more; none is left unset.
C24_LengthFixedOnce ==
    (status = "ready" /\ NormalizationRuns(input)) =>
        \A i \in Nodes(tree) \ {Root} :
            LET a == AssignedTo(i)
            IN  /\ Len(a) >= 1
                /\ a[1].leaf = FirstLeaf(tree, UnitDepths, i)
                /\ tree.bl[i] = Some(a[1].value)
                /\ \A k \in 2..Len(a) :
                      /\ a[k].value = a[1].value
                      /\ a[k].value = PyInt(1)
                      /\ UnitDepths[a[k].leaf] = RMax(UnitDepths)
                /\ Len(a) = Cardinality({l \in Leaves(tree) :
                                /\ i \in AncSelf(tree.parent, l)
                                /\ \/ l = a[1].leaf
                                   \/ UnitDepths[l] = RMax(UnitDepths)})

C24_Witness ==
    /\ status = "ready" /\ NormalizationRuns(input)
    /\ \E i, j \in Nodes(tree) \ {Root} :
          /\ Len(AssignedTo(i)) = 2
          /\ Len(AssignedTo(j)) = 1
          /\ ~IsTerminal(tree, j)
          /\ Num(<<AssignedTo(j)[1].value>>) = <<3, 2>>

(***************************************************************************)
(* Claims about the rectangles and the axis bounds, checked under          *)
(* SpecLayout                                                              *)
(***************************************************************************)
\* node i and the nodes below it
Below(i) == {j \in Nodes(tree) : i \in AncSelf(tree.parent, j)}

Largest(S) == CHOOSE x \in S : \A y \in S : RLe(y, x)
Smallest(S) == CHOOSE x \in S : \A y \in S : RLe(x, y)

RightOf(i) == At(Get(cache, "name2xy_right"), i)

\* C25: the rectangle of a node starts at the midpoint of its own and its
\* parent's right x (the root: at its own right x), ends at max_tree_depth
\* when leaf labels are aligned and else at the largest right x in its
\* subtree, and reaches from the smallest leaf y of the subtree - 0.5 to the
\* largest + 0.5; its width is not negative and its height is at least 1.
C25_BaseRectangle ==
    cache.name2rect # None =>
        \A i \in Nodes(tree) :
            LET r == At(Get(cache, "name2rect"), i)
                x0 == IF i = Root THEN RightOf(Root)[1]
                      ELSE RDivInt(RAdd(RightOf(i)[1], RightOf(tree.parent[i])[1]), 2)
                x1 == IF input.align_leaf_label THEN Get(cache, "max_tree_depth")
                      ELSE Largest({RightOf(j)[1] : j \in Below(i)})
                leafY == {RightOf(j)[2] : j \in Below(i) \cap Leaves(tree)}
                y0 == RSub(Smallest(leafY), <<1, 2>>)
                y1 == RAdd(Largest(leafY), <<1, 2>>)
            IN  /\ r = Rect(x0, y0, RSub(x1, x0), RSub(y1, y0))
                /\ RLe(RI(0), r.width)
                /\ RLe(RI(1), r.height)

C25_Witness ==
    /\ cache.name2rect # None
    /\ input.align_leaf_label
    /\ \E i \in Internal(tree) \ {Root} :
          LET r == At(Get(cache, "name2rect"), i)
          IN  /\ r.height = RI(2)
              /\ r.x = <<1, 2>>
              /\ RLt(Largest({RightOf(j)[1] : j \in Below(i)}), RAdd(r.x, r.width))

\* C26: max_tree_depth, the upper bound of xlim, is the largest right x of a
\* leaf, and every right coordinate lies in 0 <= x <= max_tree_depth and
\* 1 <= y <= number of leaves.
C26_CoordinatesInsideAxes ==
    (cache.max_tree_depth # None /\ cache.name2xy_right # None) =>
        /\ Get(cache, "max_tree_depth")
              = Largest({RightOf(j)[1] : j \in Leaves(tree)})
        /\ \A i \in Nodes(tree) :
              /\ RLe(RI(0), RightOf(i)[1])
              /\ RLe(RightOf(i)[1], Get(cache, "max_tree_depth"))
              /\ RLe(RI(1), RightOf(i)[2])
              /\ RLe(RightOf(i)[2], RI(CountTerminals(tree)))

(***************************************************************************)
(* Claims about measured texts, styles and failed calls, under Spec        *)
(***************************************************************************)
\* the leaf labels the last pass drew in phase 2 for the subtree of a query
LabelsDrawnFor(query) ==
    SelectSeq(log, LAMBDA e :
        /\ e.phase = 2 /\ e.op = "text"
        /\ e.s \in TargetLabels(SubtreeLeaves(tree,
                        FindByName(tree, SearchTargetNodeName(query)))))

\* the rectangle that spans them
SpanOf(query) == TextsRectOver(Extents(TextsOf(LabelsDrawnFor(query))))

RightEdge(rect) == RAdd(rect.x, rect.width)

\* C27: what a highlight with area branch-label or full and an annotate
\* measure is the span of the leaf labels drawn in phase 2 for the measured
\* subtree, whatever other texts were registered before them.
C27_MeasuresLeafLabelsOnly ==
    \A k \in DOMAIN log :
        LET e == log[k]
            f == plot_funcs[e.cmd]
            all == SpanOf(QList(leaf_labels))
        IN  /\ (e.op = "add_patch" /\ f.area \in {"branch-label", "full"}) =>
                  LET m == IF f.area = "full" THEN all ELSE SpanOf(f.query)
                  IN  m.raised = "" /\ RightEdge(e.rect) = RightEdge(m.rect)
            /\ (e.op = "plot" /\ e.phase = 3 /\ f.kind = "annotate") =>
                  LET m == SpanOf(f.query)
                  IN  /\ m.raised = ""
                      /\ e.y = <<m.rect.y, RAdd(m.rect.y, m.rect.height)>>
                      /\ e.x[1] = RAdd(IF f.align THEN RightEdge(all.rect)
                                       ELSE RightEdge(m.rect),
                                       RMul(MaxDepth(tree), AnnotateXmarginRatio))

\* the line style override of the node called name: what the defaultdict
\* gives for it, {} when none is set
LineOverride(d, name) == DefaultGet(d, name)

\* the call, a set_node_line_props that returned, covers node i
Covers(call, i) ==
    LET target == FindByName(tree, SearchTargetNodeName(call.args[1]))
    IN  i = target \/ (call.args[2] /\ target \in AncSelf(tree.parent, i))

\* C28: a constructed engine has no line style override; a set_node_line_props
\* call that returns gives the nodes it covers (its target, and the nodes
\* below it when descendent is set) exactly its keywords and leaves the
\* override of every other node as it was; nothing else changes an override.
C28_LatestLinePropsWin ==
    [][/\ (status = "new" /\ status' = "ready") => node2line_props' = EmptyDict
       /\ status = "ready" =>
            \A i \in Nodes(tree) :
                LineOverride(node2line_props', Str(tree.name[i])) =
                    IF /\ calls' = calls + 1
                       /\ last'.op = "set_node_line_props" /\ last'.raised = ""
                       /\ Covers(last', i)
                    THEN last'.args[3]
                    ELSE LineOverride(node2line_props, Str(tree.name[i]))]_vars

C28_Witness ==
    /\ last.op = "set_node_line_props" /\ last.raised = "" /\ calls = 2
    /\ ~last.args[2]
    /\ LineOverride(node2line_props, "A") = [lw |-> 2]
    /\ LineOverride(node2line_props, "B") = [color |-> "orange"]

\* C29: a registration or styling call that raises leaves the list of plot
\* functions, the label properties and the line properties as they were.
C29_FailedCallChangesNothing ==
    [][(calls' = calls + 1 /\ last'.raised # "") =>
            UNCHANGED <<plot_funcs, node2label_props, node2line_props>>]_vars

C29_Witness ==
    /\ last.op = "link" /\ last.raised = "ValueError"
    /\ last.args[4] \notin XPos
    /\ Len(plot_funcs) = 1
    /\ node2line_props = EmptyDict

(***************************************************************************)
(* A further claim about the naming, checked under SpecBuild               *)
(***************************************************************************)
\* the nodes of the input tree that were given a name
ExplicitlyNamed == {i \in Nodes(input.tree) : input.tree.name[i] # None}

\* C30: when the names given in the input tree are pairwise distinct,
\* construction succeeds and the names of all nodes are pairwise distinct.
C30_DistinctNamesConstruct ==
    (/\ status # "new"
     /\ \A i, j \in ExplicitlyNamed :
            input.tree.name[i] = input.tree.name[j] => i = j) =>
        /\ status = "ready"
        /\ \A i, j \in Nodes(tree) : tree.name[i] = tree.name[j] => i = j

====
